---- MODULE Spec2Model ----
(***************************************************************************)
(* A model of jm33-m0/arc: the filter builder (ExcludeFilesFilter,         *)
(* IncludeFilesFilter), the archive orchestrator (Archive,                 *)
(* ArchiveWithFilter), the codec orchestrator (Compress, Decompress) and   *)
(* the command-line programs built on them.                                *)
(*                                                                         *)
(* Strings are sequences of one-character strings, so that the path,       *)
(* case and regular-expression functions are computed and not assumed.     *)
(***************************************************************************)
EXTENDS Integers, Sequences, FiniteSets, TLC

Nil == "nil"

\* ------------------------------------------------------------------ bounds

\* longest pattern list handed to a filter builder
MaxPatterns == 2

\* ------------------------------------------------------- regular expressions

\* File names the predicates are applied to (fi.Name() is a base name).
NameATxt == <<"a", ".", "t", "x", "t">>
NameBBin == <<"b", ".", "b", "i", "n">>
NameTxt == <<"t", "x", "t">>
NameFoo == <<"f", "o", "o">>
NameEmpty == <<>>

Names == {NameATxt, NameBBin, NameTxt, NameFoo, NameEmpty}

\* Patterns, as token sequences.  "\\." is the escaped dot; "(" is never closed,
\* the pool holding no ")".
PatTxtSuffix == <<".", "*", "\\.", "t", "x", "t", "$">>
PatBinSuffix == <<".", "*", "\\.", "b", "i", "n", "$">>
PatAnchoredA == <<"^", "a">>
PatDot == <<".">>
PatOStar == <<"f", "o", "*", "$">>
PatEmpty == <<>>
PatBadParen == <<"a", "(">>
PatBadStar == <<"*", "a">>
PatBadNested == <<"a", "*", "*">>

ValidPatterns == {PatTxtSuffix, PatBinSuffix, PatAnchoredA, PatDot, PatOStar, PatEmpty}
InvalidPatterns == {PatBadParen, PatBadStar, PatBadNested}
PatternPool == ValidPatterns \cup InvalidPatterns

RECURSIVE SeqsUpTo(_, _)
SeqsUpTo(S, n) ==
    IF n = 0 THEN {<<>>}
    ELSE LET shorter == SeqsUpTo(S, n - 1)
         IN shorter \cup {Append(s, x) : s \in shorter, x \in S}

PatternLists == SeqsUpTo(PatternPool, MaxPatterns)

Atom(k, c) == [k |-> k, c |-> c, star |-> FALSE]

\* regexp.Compile: the parse of a pattern into atoms, or the parse error.
RECURSIVE ParseFrom(_, _, _)
ParseFrom(p, i, acc) ==
    IF i > Len(p) THEN [ok |-> TRUE, prog |-> acc, err |-> Nil]
    ELSE LET t == p[i] IN
         CASE t = "(" -> [ok |-> FALSE, prog |-> <<>>, err |-> "missing closing )"]
           [] t = "*" ->
                IF acc = <<>>
                THEN [ok |-> FALSE, prog |-> <<>>,
                      err |-> "missing argument to repetition operator"]
                ELSE IF acc[Len(acc)].star
                THEN [ok |-> FALSE, prog |-> <<>>,
                      err |-> "invalid nested repetition operator"]
                ELSE ParseFrom(p, i + 1,
                               [acc EXCEPT ![Len(acc)].star = TRUE])
           [] t = "." -> ParseFrom(p, i + 1, Append(acc, Atom("any", ".")))
           [] t = "\\." -> ParseFrom(p, i + 1, Append(acc, Atom("lit", ".")))
           [] t = "^" -> ParseFrom(p, i + 1, Append(acc, Atom("bol", "^")))
           [] t = "$" -> ParseFrom(p, i + 1, Append(acc, Atom("eol", "$")))
           [] OTHER -> ParseFrom(p, i + 1, Append(acc, Atom("lit", t)))

Compile(p) == ParseFrom(p, 1, <<>>)

AtomMatches(a, ch) == a.k = "any" \/ (a.k = "lit" /\ a.c = ch)

\* Whether prog[j..] matches s starting at position i (a prefix match).
RECURSIVE MatchHere(_, _, _, _)
MatchHere(prog, j, s, i) ==
    IF j > Len(prog) THEN TRUE
    ELSE LET a == prog[j] IN
         CASE a.k = "bol" -> (a.star \/ i = 1) /\ MatchHere(prog, j + 1, s, i)
           [] a.k = "eol" -> (a.star \/ i = Len(s) + 1) /\ MatchHere(prog, j + 1, s, i)
           [] a.star ->
                \E n \in 0..(Len(s) + 1 - i) :
                    /\ \A m \in 0..(n - 1) : AtomMatches(a, s[i + m])
                    /\ MatchHere(prog, j + 1, s, i + n)
           [] OTHER ->
                /\ i <= Len(s)
                /\ AtomMatches(a, s[i])
                /\ MatchHere(prog, j + 1, s, i + 1)

\* (*Regexp).MatchString: an unanchored search.
MatchString(prog, s) == \E i \in 1..(Len(s) + 1) : MatchHere(prog, 1, s, i)

\* ----------------------------------------------------------- filter builder

\* The loop compiling each pattern in turn; the first failure returns at once.
RECURSIVE CompileAll(_, _, _)
CompileAll(pats, i, regexes) ==
    IF i > Len(pats) THEN [ok |-> TRUE, regexes |-> regexes, err |-> Nil]
    ELSE LET re == Compile(pats[i]) IN
         IF ~re.ok THEN [ok |-> FALSE, regexes |-> <<>>, err |-> re.err]
         ELSE CompileAll(pats, i + 1, Append(regexes, re.prog))

\* The closures' loop over the compiled regexes: the index of the first one
\* matching name, 0 when none does.
RECURSIVE FirstMatch(_, _, _)
FirstMatch(regexes, nm, i) ==
    IF i > Len(regexes) THEN 0
    ELSE IF MatchString(regexes[i], nm) THEN i
    ELSE FirstMatch(regexes, nm, i + 1)

ExcludeClosureMutant(regexes, nm) == Len(regexes) > 0 /\ MatchString(regexes[1], nm)

\* func(name string) bool returned by ExcludeFilesFilter
ExcludeClosure(regexes, nm) == FirstMatch(regexes, nm, 1) # 0

IncludeClosureMutant(regexes, nm) == Len(regexes) > 0 /\ FirstMatch(regexes, nm, 1) = 0

\* func(name string) bool returned by IncludeFilesFilter
IncludeClosure(regexes, nm) == FirstMatch(regexes, nm, 1) = 0

BuildFilterMutant(kind, pats) ==
    LET good == SelectSeq(pats, LAMBDA p : Compile(p).ok)
        c == CompileAll(good, 1, <<>>)
    IN [fn |-> [kind |-> kind, regexes |-> c.regexes], err |-> Nil]

\* The nil func value.
NilFn == [kind |-> "nil", regexes |-> <<>>]

\* The shared shape of ExcludeFilesFilter and IncludeFilesFilter: (closure, nil)
\* or (nil, err).
BuildFilter(kind, pats) ==
    LET c == CompileAll(pats, 1, <<>>)
    IN IF c.ok THEN [fn |-> [kind |-> kind, regexes |-> c.regexes], err |-> Nil]
       ELSE [fn |-> NilFn, err |-> c.err]

ExcludeFilesFilter(pats) == BuildFilter("exclude", pats)

IncludeFilesFilter(pats) == BuildFilter("include", pats)

\* Calling a returned predicate.
ApplyFilter(fn, nm) ==
    IF fn.kind = "exclude" THEN ExcludeClosure(fn.regexes, nm)
    ELSE IncludeClosure(fn.regexes, nm)

VARIABLES
    builder,      \* the filter builder last called
    patterns,     \* the pattern list last handed to it
    filterRet,    \* what the builder returned: [fn, err]
    applied,      \* whether the returned predicate has been called
    name,         \* the name the predicate was last called with
    verdict       \* what the predicate returned for it

filterVars == <<builder, patterns, filterRet, applied, name, verdict>>

NoFilter == [fn |-> NilFn, err |-> Nil]

CallExcludeFilesFilter ==
    /\ builder = "none"
    /\ \E pats \in PatternLists :
        /\ builder' = "ExcludeFilesFilter"
        /\ patterns' = pats
        /\ filterRet' = ExcludeFilesFilter(pats)
        /\ applied' = FALSE
        /\ name' = <<>>
        /\ verdict' = FALSE

CallIncludeFilesFilter ==
    /\ builder = "none"
    /\ \E pats \in PatternLists :
        /\ builder' = "IncludeFilesFilter"
        /\ patterns' = pats
        /\ filterRet' = IncludeFilesFilter(pats)
        /\ applied' = FALSE
        /\ name' = <<>>
        /\ verdict' = FALSE

CallPredicate ==
    /\ filterRet.fn # NilFn
    /\ \E nm \in Names :
        /\ applied' = TRUE
        /\ name' = nm
        /\ verdict' = ApplyFilter(filterRet.fn, nm)
    /\ UNCHANGED <<builder, patterns, filterRet>>

\* ------------------------------------------------------------------ paths

\* The elements of a path between its separators.
RECURSIVE SplitFrom(_, _, _, _)
SplitFrom(p, i, cur, acc) ==
    IF i > Len(p) THEN Append(acc, cur)
    ELSE IF p[i] = "/" THEN SplitFrom(p, i + 1, <<>>, Append(acc, cur))
    ELSE SplitFrom(p, i + 1, Append(cur, p[i]), acc)

Elements(p) == SplitFrom(p, 1, <<>>, <<>>)

DotDot == <<".", ".">>

\* filepath.Clean's pass over the elements: empty and "." elements are dropped,
\* ".." removes the element before it.
RECURSIVE CleanFrom(_, _, _, _)
CleanFrom(els, i, rooted, out) ==
    IF i > Len(els) THEN out
    ELSE LET e == els[i] IN
         CASE e = <<>> \/ e = <<".">> -> CleanFrom(els, i + 1, rooted, out)
           [] e = DotDot ->
                IF out # <<>> /\ out[Len(out)] # DotDot
                THEN CleanFrom(els, i + 1, rooted, SubSeq(out, 1, Len(out) - 1))
                ELSE IF rooted THEN CleanFrom(els, i + 1, rooted, out)
                ELSE CleanFrom(els, i + 1, rooted, Append(out, DotDot))
           [] OTHER -> CleanFrom(els, i + 1, rooted, Append(out, e))

RECURSIVE JoinFrom(_, _)
JoinFrom(els, i) ==
    IF i > Len(els) THEN <<>>
    ELSE IF i = Len(els) THEN els[i]
    ELSE els[i] \o <<"/">> \o JoinFrom(els, i + 1)

\* filepath.Clean
Clean(p) ==
    IF p = <<>> THEN <<".">>
    ELSE LET rooted == p[1] = "/"
             out == CleanFrom(Elements(p), 1, rooted, <<>>)
         IN IF rooted THEN <<"/">> \o JoinFrom(out, 1)
            ELSE IF out = <<>> THEN <<".">>
            ELSE JoinFrom(out, 1)

RECURSIVE TrimTrailingSlashes(_)
TrimTrailingSlashes(p) ==
    IF p # <<>> /\ p[Len(p)] = "/"
    THEN TrimTrailingSlashes(SubSeq(p, 1, Len(p) - 1))
    ELSE p

RECURSIVE LastSlash(_, _)
LastSlash(p, i) ==
    IF i = 0 THEN 0
    ELSE IF p[i] = "/" THEN i
    ELSE LastSlash(p, i - 1)

\* filepath.Base
Base(p) ==
    IF p = <<>> THEN <<".">>
    ELSE LET t == TrimTrailingSlashes(p)
             b == SubSeq(t, LastSlash(t, Len(t)) + 1, Len(t))
         IN IF b = <<>> THEN <<"/">> ELSE b

ArchiveDirNameMutant(dir) == Base(dir)

\* archiveDirName, the name the files are nested under in the archive
ArchiveDirName(dir) == IF dir = <<".">> THEN <<>> ELSE Base(Clean(dir))

\* Source paths handed to the archive functions.
DirDot == <<".">>
DirFoo == <<"f", "o", "o">>
DirFooSlash == <<"f", "o", "o", "/">>
DirFooDot == <<"f", "o", "o", "/", ".">>
DirRelFoo == <<"x", "/", "f", "o", "o">>
DirDotFoo == <<".", "/", "f", "o", "o">>
DirAbsFoo == <<"/", "x", "/", "f", "o", "o", "/">>
DirUpFoo == <<"x", "/", ".", ".", "/", "f", "o", "o">>
DirDotSlash == <<".", "/">>
DirParent == <<".", ".">>

NamedFooDirs == {DirFoo, DirFooSlash, DirFooDot, DirRelFoo, DirDotFoo, DirAbsFoo, DirUpFoo}
Dirs == NamedFooDirs \cup {DirDot, DirDotSlash, DirParent}

\* ------------------------------------------------------ archive orchestrator

\* most entries an enumeration returns
MaxFiles == 2

\* fi.Name() of the entries an enumeration may return
EntryNames == {NameATxt, NameBBin, NameFoo}
FileLists == SeqsUpTo(EntryNames, MaxFiles)

\* The predicates handed to ArchiveWithFilter.
IncludeTxt == IncludeFilesFilter(<<PatTxtSuffix>>).fn
ExcludeBin == ExcludeFilesFilter(<<PatBinSuffix>>).fn
IncludeNone == IncludeFilesFilter(<<>>).fn
ExcludeNone == ExcludeFilesFilter(<<>>).fn
ExcludeTwo == ExcludeFilesFilter(<<PatAnchoredA, PatOStar>>).fn
ArchiveFilters == {IncludeTxt, ExcludeBin, IncludeNone, ExcludeNone, ExcludeTwo}

\* What is at the destination path, and what os.Stat meets at the source path:
\* a directory, nothing (ENOENT), or nothing that can be reached (ENOTDIR,
\* EACCES: an error that is not "not exist").
DestStates == {"absent", "file", "dir"}
SrcStates == {"dir", "absent", "unreachable"}

\* os.Stat's error for the source path
Stat(s) ==
    CASE s = "dir" -> "nil"
      [] s = "absent" -> "ENOENT"
      [] OTHER -> "EOTHER"

\* os.IsNotExist
IsNotExist(err) == err = "ENOENT"

isExistMutant(s) == TRUE

\* isExist: whether stat reports anything but "not exist"
isExist(s) == ~IsNotExist(Stat(s))

CloseMutant(h) == h

\* Close on a handle (the destination file, the compression writer, the
\* decompression reader): the handle is released whether or not Close reports
\* an error.
Close(h) == "closed"

\* Whether the function returns os.RemoveAll's error; the Archive of
\* archiver.go discards it.
RemoveErrorReturned(f) == f # "ArchiveV1"

FilterFilesMutant(fl, flt) == SelectSeq(fl, LAMBDA e : ApplyFilter(flt, e))

\* The loop of ArchiveWithFilter appending the entries the filter keeps.
RECURSIVE FilterFrom(_, _, _, _)
FilterFrom(fl, flt, i, kept) ==
    IF i > Len(fl) THEN kept
    ELSE IF ~ApplyFilter(flt, fl[i]) THEN FilterFrom(fl, flt, i + 1, Append(kept, fl[i]))
    ELSE FilterFrom(fl, flt, i + 1, kept)

FilterFiles(fl, flt) == FilterFrom(fl, flt, 1, <<>>)

VARIABLES
    pc,            \* where the running operation stands; "idle", "done" between calls
    fn,            \* the operation called
    log,           \* the calls it made to the OS and the library, with their outcome
    ret,           \* the error it returned ("nil" for none), "none" while it runs
    dir,           \* Archive: the source path
    filter,        \* ArchiveWithFilter: the predicate
    dest,          \* what is at the destination path
    src,           \* what is at the source path
    rootInArchive, \* the nesting prefix handed to the enumeration
    files,         \* the enumerated entries
    filtered,      \* the entries handed to the stream
    written,       \* the entries in the destination file
    outf           \* the destination file's handle: "none", "open", "closed"

opVars == <<pc, fn, log, ret>>
archiveVars == <<dir, filter, dest, src, rootInArchive, files, filtered, written, outf>>

Logged(call, ok) == Append(log, [call |-> call, ok |-> ok])

\* rootInArchive before the enumeration is called
Unset == <<"unset">>

ArchiveFns == {"ArchiveV1", "Archive", "ArchiveWithFilter"}

\* A call of Archive (either version) or ArchiveWithFilter, the file system
\* being in any state.
CallArchive ==
    /\ pc = "idle"
    /\ \E f \in ArchiveFns, d \in Dirs, flt \in ArchiveFilters \cup {NilFn},
          dst \in DestStates, s \in SrcStates :
        /\ (f = "ArchiveWithFilter") <=> (flt # NilFn)
        /\ fn' = f
        /\ dir' = d
        /\ filter' = flt
        /\ dest' = dst
        /\ src' = s
    /\ pc' = "remove"
    /\ log' = <<>>
    /\ ret' = "none"
    /\ rootInArchive' = Unset
    /\ files' = <<>>
    /\ filtered' = <<>>
    /\ written' = <<>>
    /\ outf' = "none"

\* os.RemoveAll(outfile).  Removing a path that does not exist succeeds.
RemoveOutfile ==
    /\ pc = "remove"
    /\ \E ok \in BOOLEAN :
        /\ dest = "absent" => ok
        /\ log' = Logged("RemoveAll", ok)
        /\ dest' = IF ok THEN "absent" ELSE dest
        /\ IF ~ok /\ RemoveErrorReturned(fn)
           THEN pc' = "done" /\ ret' = "failed to remove existing output file"
           ELSE pc' = "stat" /\ ret' = ret
    /\ UNCHANGED <<fn, dir, filter, src, rootInArchive, files, filtered, written, outf>>

\* if !isExist(dir)
CheckSource ==
    /\ pc = "stat"
    /\ log' = Logged("Stat", Stat(src) = "nil")
    /\ IF ~isExist(src)
       THEN pc' = "done" /\ ret' = "does not exist"
       ELSE pc' = "enum" /\ ret' = ret
    /\ UNCHANGED <<fn, archiveVars>>

\* archives.FilesFromDisk, and in ArchiveWithFilter the filter loop after it.
MapFiles ==
    /\ pc = "enum"
    /\ rootInArchive' = ArchiveDirName(dir)
    /\ \E ok \in BOOLEAN :
        /\ ok => src = "dir"
        /\ log' = Logged("FilesFromDisk", ok)
        /\ IF ok
           THEN \E fl \in FileLists :
                    /\ files' = fl
                    /\ filtered' = IF fn = "ArchiveWithFilter"
                                   THEN FilterFiles(fl, filter)
                                   ELSE fl
                    /\ pc' = "create"
                    /\ ret' = ret
           ELSE /\ pc' = "done"
                /\ ret' = "error mapping files"
                /\ UNCHANGED <<files, filtered>>
    /\ UNCHANGED <<fn, dir, filter, dest, src, written, outf>>

\* os.Create(outfile): creates or truncates; a directory cannot be opened.
CreateOutfile ==
    /\ pc = "create"
    /\ \E ok \in BOOLEAN :
        /\ ok => dest # "dir"
        /\ log' = Logged("Create", ok)
        /\ IF ok
           THEN /\ dest' = "file"
                /\ outf' = "open"
                /\ pc' = "stream"
                /\ ret' = ret
           ELSE /\ pc' = "done"
                /\ ret' = "error creating output file"
                /\ UNCHANGED <<dest, outf>>
    /\ written' = <<>>
    /\ UNCHANGED <<fn, dir, filter, src, rootInArchive, files, filtered>>

\* format.Archive(ctx, outf, files): a failure leaves part of the entries written.
StreamArchive ==
    /\ pc = "stream"
    /\ \E ok \in BOOLEAN :
        /\ log' = Logged("format.Archive", ok)
        /\ IF ok
           THEN written' = filtered /\ ret' = "nil"
           ELSE /\ \E k \in 0..Len(filtered) : written' = SubSeq(filtered, 1, k)
                /\ ret' = "error during archive creation"
    /\ pc' = "close"
    /\ UNCHANGED <<fn, dir, filter, dest, src, rootInArchive, files, filtered, outf>>

\* The deferred outf.Close(), whose error is dropped, and the return.
CloseOutfile ==
    /\ pc = "close"
    /\ \E ok \in BOOLEAN : log' = Logged("outf.Close", ok)
    /\ outf' = Close(outf)
    /\ pc' = "done"
    /\ UNCHANGED <<fn, ret, dir, filter, dest, src, rootInArchive, files, filtered, written>>

\* -------------------------------------------------------- codec orchestrator

\* longest buffer handed to Compress
MaxData == 2

DataBytes == {7, 250}
Buffers == SeqsUpTo(DataBytes, MaxData)

\* The keys of CompressionMap and the handles they map to.
Formats == {"Gz", "Bz2", "Xz", "Zstd", "Lz4", "Brotli"}

\* The library's codecs, as far as the orchestrator depends on them: a stream is
\* a format header, the data run-length coded, and a trailer (end mark, length,
\* checksum) that the writer can only emit when it is closed.
Magic(f) ==
    CASE f = "Gz" -> 31
      [] f = "Bz2" -> 66
      [] f = "Xz" -> 253
      [] f = "Zstd" -> 40
      [] f = "Lz4" -> 4
      [] OTHER -> 11

RECURSIVE SumFrom(_, _)
SumFrom(b, i) == IF i > Len(b) THEN 0 ELSE (b[i] + SumFrom(b, i + 1)) % 256

Checksum(b) == SumFrom(b, 1)

\* The runs of b as count, byte, count, byte, ...
RECURSIVE RunsFrom(_, _, _)
RunsFrom(b, i, acc) ==
    IF i > Len(b) THEN acc
    ELSE IF acc # <<>> /\ acc[Len(acc)] = b[i] /\ acc[Len(acc) - 1] < 255
    THEN RunsFrom(b, i + 1, [acc EXCEPT ![Len(acc) - 1] = @ + 1])
    ELSE RunsFrom(b, i + 1, acc \o <<1, b[i]>>)

Trailer(b) == <<0, Len(b) % 256, Checksum(b)>>

\* Everything a writer of format f emits for b, from OpenWriter to Close.
Stream(b, f) == <<Magic(f)>> \o RunsFrom(b, 1, <<>>) \o Trailer(b)

\* How much of the stream a writer may have passed to its sink before it is
\* closed: never the trailer, nor the run that more data could still extend.
Flushable(b, f) == Len(Stream(b, f)) - Len(Trailer(b)) - (IF b = <<>> THEN 0 ELSE 2)

\* The least a writer has passed to its sink once Write has returned:
\* compress/gzip writes its header on the first Write.
HeaderWritten(f) == IF f = "Gz" THEN 1 ELSE 0

RECURSIVE Repeat(_, _)
Repeat(x, n) == IF n = 0 THEN <<>> ELSE <<x>> \o Repeat(x, n - 1)

\* A reader's output up to the end of its stream, and whether the stream ended
\* as a complete one (end mark, length and checksum right, nothing after).
RECURSIVE ReadFrom(_, _, _)
ReadFrom(st, i, acc) ==
    IF i > Len(st) THEN [ok |-> FALSE, data |-> acc]
    ELSE IF st[i] = 0
    THEN [ok |-> /\ i + 2 = Len(st)
                 /\ st[i + 1] = Len(acc) % 256
                 /\ st[i + 2] = Checksum(acc),
          data |-> acc]
    ELSE IF i + 1 > Len(st) THEN [ok |-> FALSE, data |-> acc]
    ELSE ReadFrom(st, i + 2, acc \o Repeat(st[i + 1], st[i]))

ReadAll(st) == ReadFrom(st, 2, <<>>)

\* compression.OpenReader: the header is the format's.
ReaderOpens(st, f) == st # <<>> /\ st[1] = Magic(f)

\* What a function returning buf.Bytes() under a deferred Close returns: the
\* operand is evaluated before the deferred call runs.
ReturnedBytes(before, after) == before

VARIABLES
    format,     \* the compression handle
    data,       \* the argument: bytes to compress, or a stream to decompress
    sink,       \* compressedBuf / decompressedBuf
    unflushed,  \* what the open writer still holds
    out,        \* the bytes returned
    codec,      \* the writer's or reader's handle: "none", "open", "closed"
    origin      \* Decompress: the Compress call whose result is the argument

codecVars == <<format, data, sink, unflushed, out, codec, origin>>

NoOrigin == [set |-> FALSE, data |-> <<>>, clean |-> FALSE]

AllOk(l) == \A i \in 1..Len(l) : l[i].ok

CallCompress ==
    /\ pc = "idle"
    /\ \E b \in Buffers, f \in Formats :
        /\ data' = b
        /\ format' = f
    /\ fn' = "Compress"
    /\ pc' = "openWriter"
    /\ log' = <<>>
    /\ ret' = "none"
    /\ sink' = <<>>
    /\ unflushed' = <<>>
    /\ out' = <<>>
    /\ codec' = "none"
    /\ origin' = NoOrigin

\* compression.OpenWriter(&compressedBuf)
OpenWriter ==
    /\ pc = "openWriter"
    /\ \E ok \in BOOLEAN :
        /\ log' = Logged("OpenWriter", ok)
        /\ IF ok
           THEN codec' = "open" /\ pc' = "write" /\ ret' = ret
           ELSE codec' = codec /\ pc' = "done" /\ ret' = "Failed to create compressor"
    /\ UNCHANGED <<fn, format, data, sink, unflushed, out, origin>>

\* compressor.Write(data) and, when it succeeds, the evaluation of the return
\* statement's operands.
WriteData ==
    /\ pc = "write"
    /\ \E ok \in BOOLEAN :
        /\ log' = Logged("Write", ok)
        /\ \E k \in HeaderWritten(format)..Flushable(data, format) :
            /\ sink' = SubSeq(Stream(data, format), 1, k)
            /\ unflushed' = SubSeq(Stream(data, format), k + 1, Len(Stream(data, format)))
        /\ ret' = IF ok THEN "nil" ELSE "Write to compressor failed"
    /\ pc' = "closeWriter"
    /\ UNCHANGED <<fn, format, data, out, codec, origin>>

\* The deferred compressor.Close(), whose error is dropped, and the return.
CloseWriter ==
    /\ pc = "closeWriter"
    /\ \E ok \in BOOLEAN :
        /\ log' = Logged("compressor.Close", ok)
        /\ sink' = IF ok THEN sink \o unflushed ELSE sink
        /\ unflushed' = IF ok THEN <<>> ELSE unflushed
        /\ out' = IF ret = "nil" THEN ReturnedBytes(sink, sink') ELSE <<>>
    /\ codec' = Close(codec)
    /\ pc' = "done"
    /\ UNCHANGED <<fn, ret, format, data, origin>>

\* Some streams that no Compress call returned: complete ones, one cut short,
\* one of another format.
OtherStreams(f) ==
    {Stream(b, f) : b \in Buffers}
        \cup {SubSeq(Stream(b, f), 1, Len(Stream(b, f)) - 1) : b \in Buffers}
        \cup {Stream(<<7>>, g) : g \in Formats \ {f}}
        \cup {<<>>}

\* A call of Decompress, on the bytes the Compress call before it returned
\* (with its format) or on other bytes.
CallDecompress ==
    /\ \/ /\ pc = "done" /\ fn = "Compress" /\ ret = "nil"
          /\ data' = out
          /\ format' = format
          /\ origin' = [set |-> TRUE, data |-> data, clean |-> AllOk(log)]
       \/ /\ pc = "idle"
          /\ \E f \in Formats :
              /\ format' = f
              /\ \E st \in OtherStreams(f) : data' = st
          /\ origin' = NoOrigin
    /\ fn' = "Decompress"
    /\ pc' = "openReader"
    /\ log' = <<>>
    /\ ret' = "none"
    /\ sink' = <<>>
    /\ unflushed' = <<>>
    /\ out' = <<>>
    /\ codec' = "none"

\* compression.OpenReader(stream)
OpenReader ==
    /\ pc = "openReader"
    /\ log' = Logged("OpenReader", ReaderOpens(data, format))
    /\ IF ReaderOpens(data, format)
       THEN codec' = "open" /\ pc' = "copy" /\ ret' = ret
       ELSE codec' = codec /\ pc' = "done" /\ ret' = "Failed to open decompression reader"
    /\ UNCHANGED <<fn, format, data, sink, unflushed, out, origin>>

\* io.Copy(&decompressedBuf, rc)
CopyAll ==
    /\ pc = "copy"
    /\ log' = Logged("io.Copy", ReadAll(data).ok)
    /\ sink' = ReadAll(data).data
    /\ ret' = IF ReadAll(data).ok THEN "nil" ELSE "Failed to read from decompressor"
    /\ pc' = "closeReader"
    /\ UNCHANGED <<fn, format, data, unflushed, out, codec, origin>>

\* The deferred rc.Close(), whose error is dropped, and the return.
CloseReader ==
    /\ pc = "closeReader"
    /\ \E ok \in BOOLEAN : log' = Logged("rc.Close", ok)
    /\ out' = IF ret = "nil" THEN sink ELSE <<>>
    /\ codec' = Close(codec)
    /\ pc' = "done"
    /\ UNCHANGED <<fn, ret, format, data, sink, unflushed, origin>>

\* ------------------------------------------------------ command-line programs

Upper == <<"A", "B", "C", "D", "E", "F", "G", "H", "I", "J", "K", "L", "M",
           "N", "O", "P", "Q", "R", "S", "T", "U", "V", "W", "X", "Y", "Z">>
Lower == <<"a", "b", "c", "d", "e", "f", "g", "h", "i", "j", "k", "l", "m",
           "n", "o", "p", "q", "r", "s", "t", "u", "v", "w", "x", "y", "z">>

ToLowerChar(c) ==
    IF \E i \in 1..Len(Upper) : Upper[i] = c
    THEN Lower[CHOOSE i \in 1..Len(Upper) : Upper[i] = c]
    ELSE c

\* strings.ToLower
ToLower(str) == [i \in 1..Len(str) |-> ToLowerChar(str[i])]

CompressionMap ==
    (<<"g", "z">> :> "Gz") @@ (<<"b", "z", "2">> :> "Bz2") @@ (<<"x", "z">> :> "Xz")
        @@ (<<"z", "s", "t">> :> "Zstd") @@ (<<"l", "z", "4">> :> "Lz4")
        @@ (<<"b", "r">> :> "Brotli")

ArchivalMap == (<<"t", "a", "r">> :> "Tar") @@ (<<"z", "i", "p">> :> "Zip")

LookupMutant(m, key) ==
    [ok |-> TRUE, handle |-> IF key \in DOMAIN m THEN m[key] ELSE "none"]

\* handle, ok := m[key]
Lookup(m, key) ==
    [ok |-> key \in DOMAIN m, handle |-> IF key \in DOMAIN m THEN m[key] ELSE "none"]

\* The format strings given on the command line.
CompressionTypes ==
    {<<"z", "s", "t">>, <<"Z", "s", "T">>, <<"g", "z">>, <<"x", "z">>,
     <<"t", "a", "r">>, <<"r", "a", "r">>, <<>>}
ArchivalTypes == {<<"t", "a", "r">>, <<"Z", "I", "P">>, <<"g", "z">>, <<"r", "a", "r">>}

\* The positional arguments of the archiver, and a file name flag's values.
ArgLists == {<<>>, <<"src">>, <<"">>, <<"src", "dst">>}
FileFlags == {"", "file"}

Ev(e) == [ev |-> e, compression |-> "none", archival |-> "none"]
Fatal == [trace |-> <<Ev("Fatal")>>, exit |-> 1]
Unsupported == [trace |-> <<Ev("Fatal: Unsupported type")>>, exit |-> 1]
Usage == [trace |-> <<Ev("Usage")>>, exit |-> 0]

\* A call that ends the program with log.Fatal when it fails, and the rest of
\* the program when it does not.
Then(event, ok, rest) ==
    IF ok THEN [trace |-> <<event>> \o rest.trace, exit |-> rest.exit]
    ELSE [trace |-> <<event, Ev("Fatal")>>, exit |-> 1]

Success == [trace |-> <<>>, exit |-> 0]

\* main of the archiver
ArchiverMain(a, opOk) ==
    IF Len(a.args) < 1 \/ a.archiveFile = "" THEN Usage
    ELSE LET source == a.args[1]
             destination == IF Len(a.args) > 1 THEN a.args[2] ELSE source
             compression == Lookup(CompressionMap, ToLower(a.compressionType))
             archival == Lookup(ArchivalMap, ToLower(a.archivalType))
         IN IF a.create /\ a.extract THEN Fatal
            ELSE IF a.create
            THEN IF source = "" THEN Fatal
                 ELSE IF ~compression.ok THEN Unsupported
                 ELSE IF ~archival.ok THEN Unsupported
                 ELSE Then([ev |-> "Archive", compression |-> compression.handle,
                            archival |-> archival.handle], opOk, Success)
            ELSE IF a.extract
            THEN IF destination = "" THEN Fatal
                 ELSE Then(Ev("Unarchive"), opOk, Success)
            ELSE Fatal

\* main of the compressor
CompressorMain(a, readOk, opOk, writeOk) ==
    IF a.output = "" \/ a.compressionType = <<>> THEN Usage
    ELSE LET file == IF a.toDecompress = "" THEN a.toCompress ELSE a.toDecompress
             compression == Lookup(CompressionMap, ToLower(a.compressionType))
             write == Then(Ev("WriteFile"), writeOk, Success)
         IN IF file = "" THEN Fatal
            ELSE IF ~compression.ok THEN Unsupported
            ELSE Then(Ev("ReadFile"), readOk,
                      IF a.toDecompress # ""
                      THEN Then([ev |-> "Decompress", compression |-> compression.handle,
                                 archival |-> "none"], opOk, write)
                      ELSE Then([ev |-> "Compress", compression |-> compression.handle,
                                 archival |-> "none"], opOk, write))

\* main of the decompressor
DecompressorMain(a, readOk, opOk, writeOk) ==
    IF a.noArgs THEN Usage
    ELSE LET compression == Lookup(CompressionMap, ToLower(a.compressionType))
         IN IF a.toDecompress = "" \/ a.output = "" THEN Fatal
            ELSE IF ~compression.ok THEN Unsupported
            ELSE Then(Ev("ReadFile"), readOk,
                      Then([ev |-> "Decompress", compression |-> compression.handle,
                            archival |-> "none"], opOk,
                           Then(Ev("WriteFile"), writeOk, Success)))

VARIABLES
    program,    \* the command-line program run
    argv,       \* its flags and arguments
    cliTrace,   \* what it did: the orchestrators called, the files read and written
    cliExit     \* its exit status

cliVars == <<program, argv, cliTrace, cliExit>>

NoArgv ==
    [compressionType |-> <<>>, archivalType |-> <<>>, create |-> FALSE,
     extract |-> FALSE, archiveFile |-> "", args |-> <<>>, toCompress |-> "",
     toDecompress |-> "", output |-> "", noArgs |-> TRUE]

RunArchiver ==
    /\ program = "none"
    /\ program' = "archiver"
    /\ \E c \in CompressionTypes, t \in ArchivalTypes, cr \in BOOLEAN, ex \in BOOLEAN,
          af \in FileFlags, as \in ArgLists, opOk \in BOOLEAN :
        /\ argv' = [NoArgv EXCEPT !.compressionType = c, !.archivalType = t,
                                  !.create = cr, !.extract = ex, !.archiveFile = af,
                                  !.args = as, !.noArgs = FALSE]
        /\ cliTrace' = ArchiverMain(argv', opOk).trace
        /\ cliExit' = ArchiverMain(argv', opOk).exit

RunCompressor ==
    /\ program = "none"
    /\ program' = "compressor"
    /\ \E c \in CompressionTypes, tc \in FileFlags, td \in FileFlags, o \in FileFlags,
          readOk \in BOOLEAN, opOk \in BOOLEAN, writeOk \in BOOLEAN :
        /\ argv' = [NoArgv EXCEPT !.compressionType = c, !.toCompress = tc,
                                  !.toDecompress = td, !.output = o, !.noArgs = FALSE]
        /\ cliTrace' = CompressorMain(argv', readOk, opOk, writeOk).trace
        /\ cliExit' = CompressorMain(argv', readOk, opOk, writeOk).exit

RunDecompressor ==
    /\ program = "none"
    /\ program' = "decompressor"
    /\ \E c \in CompressionTypes, td \in FileFlags, o \in FileFlags, na \in BOOLEAN,
          readOk \in BOOLEAN, opOk \in BOOLEAN, writeOk \in BOOLEAN :
        /\ na => (td = "" /\ o = "" /\ c = <<"x", "z">>)
        /\ argv' = [NoArgv EXCEPT !.compressionType = c, !.toDecompress = td,
                                  !.output = o, !.noArgs = na]
        /\ cliTrace' = DecompressorMain(argv', readOk, opOk, writeOk).trace
        /\ cliExit' = DecompressorMain(argv', readOk, opOk, writeOk).exit

\* ---------------------------------------------------------- specifications

vars == <<filterVars, opVars, archiveVars, codecVars, cliVars>>

Init ==
    /\ builder = "none"
    /\ patterns = <<>>
    /\ filterRet = NoFilter
    /\ applied = FALSE
    /\ name = <<>>
    /\ verdict = FALSE
    /\ pc = "idle"
    /\ fn = "none"
    /\ log = <<>>
    /\ ret = "none"
    /\ dir = <<>>
    /\ filter = NilFn
    /\ dest = "absent"
    /\ src = "dir"
    /\ rootInArchive = Unset
    /\ files = <<>>
    /\ filtered = <<>>
    /\ written = <<>>
    /\ outf = "none"
    /\ format = "none"
    /\ data = <<>>
    /\ sink = <<>>
    /\ unflushed = <<>>
    /\ out = <<>>
    /\ codec = "none"
    /\ origin = NoOrigin
    /\ program = "none"
    /\ argv = NoArgv
    /\ cliTrace = <<>>
    /\ cliExit = 0

\* The filter builders and the predicates they return.
FilterNext ==
    \/ CallExcludeFilesFilter /\ UNCHANGED <<opVars, archiveVars, codecVars, cliVars>>
    \/ CallIncludeFilesFilter /\ UNCHANGED <<opVars, archiveVars, codecVars, cliVars>>
    \/ CallPredicate /\ UNCHANGED <<opVars, archiveVars, codecVars, cliVars>>

SpecFilter == Init /\ [][FilterNext]_vars

\* The orchestrators: one call at a time, run step by step.
Next ==
    \/ CallArchive /\ UNCHANGED <<filterVars, codecVars, cliVars>>
    \/ RemoveOutfile /\ UNCHANGED <<filterVars, codecVars, cliVars>>
    \/ CheckSource /\ UNCHANGED <<filterVars, codecVars, cliVars>>
    \/ MapFiles /\ UNCHANGED <<filterVars, codecVars, cliVars>>
    \/ CreateOutfile /\ UNCHANGED <<filterVars, codecVars, cliVars>>
    \/ StreamArchive /\ UNCHANGED <<filterVars, codecVars, cliVars>>
    \/ CloseOutfile /\ UNCHANGED <<filterVars, codecVars, cliVars>>
    \/ CallCompress /\ UNCHANGED <<filterVars, archiveVars, cliVars>>
    \/ OpenWriter /\ UNCHANGED <<filterVars, archiveVars, cliVars>>
    \/ WriteData /\ UNCHANGED <<filterVars, archiveVars, cliVars>>
    \/ CloseWriter /\ UNCHANGED <<filterVars, archiveVars, cliVars>>
    \/ CallDecompress /\ UNCHANGED <<filterVars, archiveVars, cliVars>>
    \/ OpenReader /\ UNCHANGED <<filterVars, archiveVars, cliVars>>
    \/ CopyAll /\ UNCHANGED <<filterVars, archiveVars, cliVars>>
    \/ CloseReader /\ UNCHANGED <<filterVars, archiveVars, cliVars>>

Spec == Init /\ [][Next]_vars

\* The command-line programs, each run once from its arguments.
CliNext ==
    \/ RunArchiver /\ UNCHANGED <<filterVars, opVars, archiveVars, codecVars>>
    \/ RunCompressor /\ UNCHANGED <<filterVars, opVars, archiveVars, codecVars>>
    \/ RunDecompressor /\ UNCHANGED <<filterVars, opVars, archiveVars, codecVars>>

SpecCLI == Init /\ [][CliNext]_vars

\* ------------------------------------------------------------------ claims

\* Whether pattern p, compiled, matches nm.
Matches(p, nm) == Compile(p).ok /\ MatchString(Compile(p).prog, nm)

AllCompile(pats) == \A i \in 1..Len(pats) : Compile(pats[i]).ok

\* C2: for a pattern list whose patterns all compile, ExcludeFilesFilter returns a
\* predicate and no error, and the predicate is true of a name exactly when some
\* pattern of the list matches the name; with the empty list it is false of
\* every name.
C2_ExcludeIffSomeMatch ==
    (builder = "ExcludeFilesFilter" /\ AllCompile(patterns)) =>
        /\ filterRet.err = Nil
        /\ filterRet.fn # NilFn
        /\ applied => (verdict <=> \E i \in 1..Len(patterns) : Matches(patterns[i], name))
        /\ (applied /\ patterns = <<>>) => ~verdict

\* C2's case: a later pattern of the list matches where the first does not.
C2_Witness ==
    /\ builder = "ExcludeFilesFilter"
    /\ applied
    /\ Len(patterns) = 2
    /\ ~Matches(patterns[1], name)
    /\ Matches(patterns[2], name)
    /\ verdict

\* C3: for a non-empty pattern list whose patterns all compile, the predicate
\* IncludeFilesFilter returns is false (keep) of a name exactly when some pattern
\* matches the name; for the empty list it is true (exclude) of every name.
C3_IncludeKeepsIffSomeMatch ==
    (builder = "IncludeFilesFilter" /\ AllCompile(patterns)) =>
        /\ filterRet.err = Nil
        /\ filterRet.fn # NilFn
        /\ (applied /\ patterns # <<>>) =>
               (~verdict <=> \E i \in 1..Len(patterns) : Matches(patterns[i], name))
        /\ (applied /\ patterns = <<>>) => verdict

\* C3's case: the predicate built from the empty list excludes a name.
C3_Witness ==
    /\ builder = "IncludeFilesFilter"
    /\ patterns = <<>>
    /\ applied
    /\ name = NameATxt
    /\ verdict

\* C4: a pattern list holding a pattern that does not compile, at any position,
\* makes either builder return an error and the nil predicate.
C4_BadPatternNoFilter ==
    (builder # "none" /\ ~AllCompile(patterns)) =>
        /\ filterRet.err # Nil
        /\ filterRet.fn = NilFn

\* C4's case: the pattern that fails follows one that compiled.
C4_Witness ==
    /\ builder = "IncludeFilesFilter"
    /\ Len(patterns) = 2
    /\ Compile(patterns[1]).ok
    /\ ~Compile(patterns[2]).ok
    /\ filterRet.err # Nil

\* Whether the running or finished operation has made the call, and with what
\* outcome.
Called(call) == \E i \in 1..Len(log) : log[i].call = call
Succeeded(call) == \E i \in 1..Len(log) : log[i].call = call /\ log[i].ok
Failed(call) == \E i \in 1..Len(log) : log[i].call = call /\ ~log[i].ok

Returned(f) == pc = "done" /\ fn = f

\* C1: round trip.  For every buffer b and every format f, Compress(b, f)
\* succeeds, and Decompress of what it returned, with f, succeeds and returns b
\* (no call of the writer failing).
C1_RoundTrip ==
    /\ (Returned("Compress") /\ AllOk(log)) => ret = "nil"
    /\ (Returned("Decompress") /\ origin.set /\ origin.clean) =>
           (ret = "nil" /\ out = origin.data)

\* C5, as stated: when the source directory does not exist, Archive and
\* ArchiveWithFilter return the not-found error, having called neither the
\* enumeration, nor os.Create, nor the streaming step, and nothing is at the
\* destination path afterwards.
C5_MissingSourceNotFound ==
    ((Returned("Archive") \/ Returned("ArchiveWithFilter")) /\ src # "dir") =>
        /\ ret = "does not exist"
        /\ ~Called("FilesFromDisk")
        /\ ~Called("Create")
        /\ ~Called("format.Archive")
        /\ dest = "absent"

\* C5, amended: the same, when the removal of the destination succeeded and
\* os.Stat reports that the source path does not exist.
C5_MissingSourceAfterRemoval ==
    ((Returned("Archive") \/ Returned("ArchiveWithFilter"))
        /\ Succeeded("RemoveAll") /\ IsNotExist(Stat(src))) =>
        /\ ret = "does not exist"
        /\ ~Called("FilesFromDisk")
        /\ ~Called("Create")
        /\ ~Called("format.Archive")
        /\ dest = "absent"
        /\ outf = "none"

\* C5's case: ArchiveWithFilter has returned the not-found error, the
\* destination removed.
C5_Witness ==
    /\ Returned("ArchiveWithFilter")
    /\ src = "absent"
    /\ Succeeded("RemoveAll")
    /\ ret = "does not exist"
    /\ dest = "absent"

\* C6: in every archive function (Archive of both versions, ArchiveWithFilter)
\* a failed removal of the destination makes the function return that error at
\* once, before the source check, the enumeration, the creation and the
\* streaming; a removal that succeeds lets it go on.
C6_RemovalFailureReturnsAtOnce ==
    /\ Failed("RemoveAll") =>
           /\ pc = "done"
           /\ ret = "failed to remove existing output file"
           /\ Len(log) = 1
    /\ (Succeeded("RemoveAll") /\ Len(log) = 1) => (pc = "stat" /\ ret = "none")

\* C7: the entries ArchiveWithFilter streams are the enumerated entries the
\* predicate does not exclude, in the order of the enumeration; with the include
\* filter for .*\.txt$ over a.txt and b.bin the archive holds a.txt alone.
C7_FilteredInOrder ==
    (fn = "ArchiveWithFilter" /\ Succeeded("FilesFromDisk")) =>
        /\ filtered = SelectSeq(files, LAMBDA e : ~ApplyFilter(filter, e))
        /\ \A i \in 1..Len(filtered) : ~ApplyFilter(filter, filtered[i])
        /\ Succeeded("format.Archive") => written = filtered
        /\ (Succeeded("format.Archive") /\ filter = IncludeTxt
               /\ files = <<NameATxt, NameBBin>>) => written = <<NameATxt>>

\* C7's case: the archive of a.txt and b.bin under the include filter.
C7_Witness ==
    /\ Returned("ArchiveWithFilter")
    /\ ret = "nil"
    /\ filter = IncludeTxt
    /\ files = <<NameATxt, NameBBin>>
    /\ written = <<NameATxt>>

\* C8: the nesting prefix handed to the enumeration is the base name of the
\* cleaned source path, except that for the source path "." it is empty; for the
\* directory foo, however written (foo, foo/, foo/., ./foo, x/foo, /x/foo/,
\* x/../foo), it is foo.
C8_NestingPrefix ==
    Called("FilesFromDisk") =>
        /\ dir = DirDot => rootInArchive = <<>>
        /\ dir # DirDot => rootInArchive = Base(Clean(dir))
        /\ dir \in NamedFooDirs => rootInArchive = NameFoo

\* C8's case: a source path with a leading path and a trailing separator.
C8_Witness ==
    /\ fn = "Archive"
    /\ dir = DirAbsFoo
    /\ Succeeded("FilesFromDisk")
    /\ rootInArchive = NameFoo

\* C9: Archive, ArchiveWithFilter, Compress and Decompress return nil only when
\* every call they made to the OS and the library succeeded.
C9_NoErrorSwallowed ==
    \A f \in {"Archive", "ArchiveWithFilter", "Compress", "Decompress"} :
        (Returned(f) /\ ret = "nil") => AllOk(log)

\* The events of a program's run that call an orchestrator or touch a file.
Effects == {"Archive", "Unarchive", "Compress", "Decompress", "ReadFile", "WriteFile"}
HasEffect(tr) == \E i \in 1..Len(tr) : tr[i].ev \in Effects

UnknownCompression == ToLower(argv.compressionType) \notin DOMAIN CompressionMap
UnknownArchival == program = "archiver" /\ ToLower(argv.archivalType) \notin DOMAIN ArchivalMap
UnknownFormat == UnknownCompression \/ UnknownArchival

\* Whether the arguments take the program as far as its format lookup.
LookupReached ==
    CASE program = "archiver" ->
            /\ Len(argv.args) >= 1 /\ argv.archiveFile # ""
            /\ argv.create /\ ~argv.extract /\ argv.args[1] # ""
      [] program = "compressor" ->
            /\ argv.output # "" /\ argv.compressionType # <<>>
            /\ (argv.toCompress # "" \/ argv.toDecompress # "")
      [] program = "decompressor" ->
            ~argv.noArgs /\ argv.toDecompress # "" /\ argv.output # ""
      [] OTHER -> FALSE

\* Every orchestrator call of the run was given the handles the registry holds
\* for the lower-cased format strings.
HandlesFromRegistry ==
    \A i \in 1..Len(cliTrace) :
        LET e == cliTrace[i] IN
        /\ e.ev \in {"Archive", "Compress", "Decompress"} =>
               /\ ~UnknownCompression
               /\ e.compression = CompressionMap[ToLower(argv.compressionType)]
        /\ e.ev = "Archive" =>
               /\ ~UnknownArchival
               /\ e.archival = ArchivalMap[ToLower(argv.archivalType)]

\* C10, as stated: a format string that is no key of the registry ends the
\* program with an error, before an orchestrator is called or a file touched.
C10_UnknownFormatFatal ==
    (program # "none" /\ UnknownFormat) =>
        /\ cliExit = 1
        /\ ~HasEffect(cliTrace)
        /\ HandlesFromRegistry

\* C10, amended: when the arguments take the program to its format lookup, a
\* format string that is no key of the registry ends it there with a fatal error
\* and nothing else done; and no run calls Archive, Compress or Decompress, or
\* reads or writes a file for them, but with handles the registry holds for the
\* format strings.
C10_LookupRejectsUnknown ==
    program # "none" =>
        /\ (UnknownFormat /\ LookupReached) =>
               /\ cliExit = 1
               /\ cliTrace = Unsupported.trace
        /\ UnknownFormat =>
               \A i \in 1..Len(cliTrace) : cliTrace[i].ev \notin Effects \ {"Unarchive"}
        /\ HandlesFromRegistry

\* C10's case: the archiver in create mode, its archival type unknown.
C10_Witness ==
    /\ program = "archiver"
    /\ argv.create
    /\ ~UnknownCompression
    /\ UnknownArchival
    /\ cliTrace = Unsupported.trace
    /\ cliExit = 1

\* ---------------------------------------------------------------------- C11

Closes(call) == Cardinality({i \in 1..Len(log) : log[i].call = call})

\* The handle h, opened by the step open and closed by the step close, is at
\* return closed by exactly one Close if the open step succeeded, and was never
\* opened nor closed otherwise.
Released(h, open, close) ==
    IF Succeeded(open)
    THEN h = "closed" /\ Closes(close) = 1
    ELSE h = "none" /\ Closes(close) = 0

\* C11: whenever Archive, ArchiveWithFilter, Compress or Decompress returns,
\* with or without an error, the handle it opened (the destination file, the
\* compression writer, the decompression reader) has been closed exactly once,
\* and on a path that returns before the open step no handle was opened; while
\* the call runs a handle exists only if its open step succeeded.
C11_HandlesReleased ==
    /\ outf # "none" => Succeeded("Create")
    /\ codec # "none" => Succeeded("OpenWriter") \/ Succeeded("OpenReader")
    /\ pc = "done" =>
        /\ fn \in ArchiveFns => Released(outf, "Create", "outf.Close")
        /\ fn = "Compress" => Released(codec, "OpenWriter", "compressor.Close")
        /\ fn = "Decompress" => Released(codec, "OpenReader", "rc.Close")

\* An error path after the open step: the streaming failed and the destination
\* file was closed once on the way out.
C11_Witness ==
    /\ Returned("ArchiveWithFilter")
    /\ Failed("format.Archive")
    /\ ret # "nil"
    /\ outf = "closed"
    /\ Closes("outf.Close") = 1

\* ---------------------------------------------------------------------- C12

\* C12: the byte sequence a successful Compress returns is the complete
\* content of the in-memory sink after the writer has been closed, with every
\* byte the writer emits on close.
C12_ReturnsClosedSink ==
    Returned("Compress") /\ ret = "nil" => out = sink

\* ---------------------------------------------------------------------- C13

\* The step at index i of the call is the one named.
StepIs(i, call) == Len(log) >= i /\ log[i].call = call

\* C13: the destination is removed before the source is checked and created
\* only after the enumeration succeeded, and whenever Archive (either version)
\* or ArchiveWithFilter returns an error from the source check or from the
\* enumeration, nothing exists at the destination path.
C13_FailedCallLeavesNoDestination ==
    fn \in ArchiveFns =>
        /\ Called("Stat") => StepIs(1, "RemoveAll") /\ StepIs(2, "Stat")
        /\ Called("Create") => Succeeded("FilesFromDisk")
        /\ pc = "done" /\ ret \in {"does not exist", "error mapping files"}
              => dest = "absent"

====
